---- MODULE Spec2Model ----
(***************************************************************************)
(* A model of src/src/title.rs: TitleText, the renderer of a window title  *)
(* into a cached RGBA bitmap.                                              *)
(*                                                                         *)
(* The font backend (crossfont) and the bitmap primitive (tiny_skia) are   *)
(* external crates.  They are modelled as a small deterministic font: the  *)
(* answer of a glyph, metrics or kerning query is a function of the query  *)
(* and of the rasterizer's device-pixel ratio.  Whether the reference      *)
(* glyph load and the metrics query succeed is an input of the operation   *)
(* that issues them.  Floating point values are kept in tenths.            *)
(***************************************************************************)
EXTENDS Integers, Sequences, FiniteSets, TLC

\* ------------------------------------------------------------------ bounds
MaxTitleLen == 2
MaxScale == 2
MaxLongTitle == 3

\* ------------------------------------------------------- program constants
MinGlyphSlot == 5
InitialScale == 1

\* --------------------------------------------------------------- alphabets
Chars == {"A", "B", "?"}
RefChar == "m"

Titles == UNION {[1..n -> Chars] : n \in 0..MaxTitleLen}
LongTitles == [1..MaxLongTitle -> Chars]
Scales == 0..MaxScale

Rgba8(r, g, b, a) == [r |-> r, g |-> g, b |-> b, a |-> a]
Red == Rgba8(255, 0, 0, 255)
Green == Rgba8(0, 255, 0, 255)
Magenta == Rgba8(255, 0, 255, 255)
Colors == {Red, Green, Magenta}

Max(a, b) == IF a >= b THEN a ELSE b
Min(a, b) == IF a <= b THEN a ELSE b

\* f32::round on a value in tenths: nearest integer, halves away from zero.
Round10(t) == IF t >= 0 THEN (t + 5) \div 10 ELSE -((-t + 5) \div 10)
\* `x as i32` on a value in tenths: truncation towards zero.
Trunc10(t) == IF t >= 0 THEN t \div 10 ELSE -((-t) \div 10)

\* ------------------------------------------------------------ font backend
Repeat(px, n) == [i \in 1..n |-> px[((i - 1) % Len(px)) + 1]]

\* rasterizer.get_glyph(GlyphKey { character, font_key, size }) at ratio d.
\*   "A": an RGBA coverage mask of d - 1 pixels, narrower than the minimal
\*        slot; up to ratio 1 it is too thin to rasterize to any pixel and
\*        the glyph has only an advance
\*   "B": an RGB mask, 2 x 1, behind a left bearing: wider than the slot
\*   "?": no glyph in the font: the lookup fails
GetGlyph(c, d) ==
    CASE c = "A" ->
           [ok |-> TRUE, left |-> 0, top |-> d, width |-> Max(d - 1, 0), height |-> 1,
            advance |-> 6 * d, format |-> "Rgba",
            buffer |-> Repeat(<<0, 0, 0, 255, 0, 0, 0, 128>>, 4 * Max(d - 1, 0))]
      [] c = "B" ->
           [ok |-> TRUE, left |-> 4 * d, top |-> d, width |-> 2, height |-> 1,
            advance |-> 7 * d, format |-> "Rgb",
            buffer |-> <<255, 255, 255, 255, 0, 0>>]
      [] OTHER ->
           [ok |-> FALSE, left |-> 0, top |-> 0, width |-> 0, height |-> 0,
            advance |-> 0, format |-> "Rgb", buffer |-> <<>>]

\* rasterizer.metrics(font_key, size) at ratio d, in tenths:
\* line heights 0, 1.5, 3.0, 4.5, ... and descents 0, -0.4, -0.8, ...
FontMetrics(d) == [line_height |-> 15 * d, descent |-> -4 * d]

\* rasterizer.kerning(last, key) at ratio d: the horizontal value, in tenths.
Kerning(last, key, d) ==
    CASE last = "A" /\ key = "B" -> -12 * d
      [] last = "B" /\ key = "A" -> 17 * d
      [] OTHER -> 0

\* One backend call, as it appears in the log of an operation: its name, its
\* character arguments a and b, its numeric argument n, and the font handle
\* and size it was given (0 until the caller of the render pass fills them in).
Call(op, a, b, n) ==
    [op |-> op, a |-> a, b |-> b, n |-> n, font_key |-> 0, size |-> 0]

\* The calls that take a font handle and a size: get_glyph and kerning in
\* their GlyphKeys, metrics as its arguments.
KeyedCalls == {"get_glyph", "kerning", "metrics"}

\* A call log with the font handle and size its keyed calls were given.
WithKey(log, fk, sz) ==
    [i \in 1..Len(log) |->
        IF log[i].op \in KeyedCalls
        THEN [log[i] EXCEPT !.font_key = fk, !.size = sz]
        ELSE log[i]]

\* crossfont::FontDesc::new("sans-serif", Normal slant and weight),
\* Size::new(10.0), and the handle load_font answers with.
FontDesc == [family |-> "sans-serif", slant |-> "Normal", weight |-> "Normal"]
NominalSize == 10
LoadedFontKey == 1
NoFontDesc == [family |-> "", slant |-> "", weight |-> ""]

\* ----------------------------------------------------------- bitmap (tiny_skia)
\* A bitmap is kept as its size and the views composited onto it so far, in
\* order (layers); PixelAt gives the bytes of one of its pixels.
None == [some |-> FALSE, width |-> 0, height |-> 0, layers |-> <<>>]
Transparent == <<0, 0, 0, 0>>

\* PixmapNew with the height raised to at least one row.
PixmapNewClamps(width, height) ==
    IF width <= 0
    THEN None
    ELSE [some |-> TRUE, width |-> width, height |-> Max(height, 1), layers |-> <<>>]

\* Pixmap::new(width as u32, height as u32): a zero-initialised bitmap; None
\* for a zero dimension or a size that cannot be allocated.  A negative i32
\* cast to u32 is at least 2^31.  The font's line heights are never negative,
\* so of the non-positive heights only zero arises.
PixmapNew(width, height) ==
    IF width <= 0 \/ height <= 0
    THEN None
    ELSE [some |-> TRUE, width |-> width, height |-> height, layers |-> <<>>]

\* PixmapRef::from_bytes(&buffer, width as u32, height as u32): a view of the
\* converted pixels; None for a zero dimension or too few bytes.
FromBytes(pixels, width, height) ==
    IF width <= 0 \/ height <= 0 \/ 4 * Len(pixels) < 4 * width * height
    THEN [some |-> FALSE, width |-> 0, height |-> 0, data |-> <<>>]
    ELSE [some |-> TRUE, width |-> width, height |-> height, data |-> pixels]

\* pixmap.draw_pixmap(x, y, src, &PixmapPaint::default(), identity, None):
\* src composited over pixmap with its top-left corner at (x, y).
DrawPixmap(pixmap, x, y, src) ==
    [pixmap EXCEPT !.layers = Append(@, [x |-> x, y |-> y, src |-> src])]

\* One channel of source-over compositing of premultiplied bytes.
SourceOver(s, d, sa) == Min(255, s + ((d * (255 - sa) + 127) \div 255))

\* The pixel (px, py) of a bitmap after its first n layers: each layer that
\* covers the pixel is composited over what was there; the rest is clipped.
RECURSIVE PixelAfter(_, _, _, _)
PixelAfter(pixmap, px, py, n) ==
    IF n = 0 THEN Transparent
    ELSE LET below == PixelAfter(pixmap, px, py, n - 1)
             layer == pixmap.layers[n]
             sx == px - layer.x
             sy == py - layer.y
         IN  IF sx >= 0 /\ sx < layer.src.width /\ sy >= 0 /\ sy < layer.src.height
             THEN LET s == layer.src.data[sy * layer.src.width + sx + 1]
                  IN  [k \in 1..4 |-> SourceOver(s[k], below[k], s[4])]
             ELSE below

PixelAt(pixmap, px, py) == PixelAfter(pixmap, px, py, Len(pixmap.layers))

\* The pixel bytes of a bitmap, row by row.
Pixels(pixmap) ==
    [i \in 1..(pixmap.width * pixmap.height) |->
        PixelAt(pixmap, (i - 1) % pixmap.width, (i - 1) \div pixmap.width)]

\* ------------------------------------------------------------- render pass
\* v.chunks(n): consecutive slices of n bytes, the last one possibly shorter.
Chunks(v, n) ==
    [i \in 1..((Len(v) + n - 1) \div n) |->
        SubSeq(v, (i - 1) * n + 1, Min(i * n, Len(v)))]

GlyphBuffer(glyph) ==
    IF glyph.format = "Rgb" THEN Chunks(glyph.buffer, 3) ELSE Chunks(glyph.buffer, 4)

\* The coverage of one source pixel as a fraction of 765 = 3 * 255: the 4th
\* byte when there is one, else the average of the three colour bytes.
AlphaDen == 765
Alpha(px) == IF Len(px) > 3 THEN 3 * px[4] ELSE px[1] + px[2] + px[3]

\* (channel / 255 * alpha).to_color_u8(): scaled by 255 and rounded.
PremultipliedU8(channel, alpha) == (2 * channel * alpha + AlphaDen) \div (2 * AlphaDen)

\* ConvertPixel with the colour's channels pushed as red, green, blue, alpha.
ConvertPixelRgba(px, color) ==
    LET alpha == Alpha(px)
    IN  <<PremultipliedU8(color.r, alpha), PremultipliedU8(color.g, alpha),
          PremultipliedU8(color.b, alpha), PremultipliedU8(255, alpha)>>

\* The four bytes pushed for one source pixel: the colour with its alpha
\* replaced by the coverage, premultiplied.
ConvertPixel(px, color) ==
    LET alpha == Alpha(px)
    IN  <<PremultipliedU8(color.r, alpha), PremultipliedU8(color.r, alpha),
          PremultipliedU8(color.g, alpha), PremultipliedU8(255, alpha)>>

ConvertBuffer(glyph, color) ==
    LET chunks == GlyphBuffer(glyph)
    IN  [i \in 1..Len(chunks) |-> ConvertPixel(chunks[i], color)]

\* Glyphs with a failed lookup kept as an empty glyph instead of dropped.
GlyphsKeepFailed(title, d) ==
    [i \in 1..Len(title) |-> [key |-> title[i], glyph |-> GetGlyph(title[i], d)]]

\* The filter_map of the render pass: the (key, glyph) pairs of the characters
\* whose lookup succeeded, in title order.
Glyphs(title, d) ==
    SelectSeq([i \in 1..Len(title) |-> [key |-> title[i], glyph |-> GetGlyph(title[i], d)]],
              LAMBDA e : e.glyph.ok)

GlyphCalls(title) == [i \in 1..Len(title) |-> Call("get_glyph", title[i], "", 0)]

\* SlotWidth without the minimal slot.
SlotWidthNoMin(g) == g.left + g.width

\* One glyph's share of the bitmap width.
SlotWidth(g) == Max(g.left + g.width, MinGlyphSlot)

RECURSIVE FoldWidth(_, _)
FoldWidth(glyphs, w) ==
    IF glyphs = <<>> THEN w
    ELSE FoldWidth(Tail(glyphs), w + SlotWidth(Head(glyphs).glyph))

\* PlaceGlyphs with the kerning added to the caret after the glyph is drawn.
RECURSIVE PlaceGlyphsKernAfter(_, _, _, _, _, _)
PlaceGlyphsKernAfter(glyphs, st, height, color, metrics, d) ==
    IF glyphs = <<>> THEN st
    ELSE LET key == Head(glyphs).key
             glyph == Head(glyphs).glyph
             buffer == ConvertBuffer(glyph, color)
             kerned == IF st.last_glyph # <<>>
                       THEN st.caret + Trunc10(Kerning(st.last_glyph[1], key, d))
                       ELSE st.caret
             calls == IF st.last_glyph # <<>>
                      THEN Append(st.calls, Call("kerning", st.last_glyph[1], key, 0))
                      ELSE st.calls
             pixmap_glyph == FromBytes(buffer, glyph.width, glyph.height)
             drawn == IF pixmap_glyph.some
                      THEN DrawPixmap(st.pixmap, glyph.left + st.caret,
                                      height - glyph.top + Round10(metrics.descent),
                                      pixmap_glyph)
                      ELSE st.pixmap
         IN  PlaceGlyphsKernAfter(Tail(glyphs),
                         [pixmap |-> drawn, caret |-> kerned + glyph.advance,
                          last_glyph |-> <<key>>, calls |-> calls],
                         height, color, metrics, d)

\* PlaceGlyphs with a glyph that has no source view skipped altogether: no
\* kerning query, no caret advance, and it is not remembered as previous.
RECURSIVE PlaceGlyphsSkip(_, _, _, _, _, _)
PlaceGlyphsSkip(glyphs, st, height, color, metrics, d) ==
    IF glyphs = <<>> THEN st
    ELSE LET key == Head(glyphs).key
             glyph == Head(glyphs).glyph
             buffer == ConvertBuffer(glyph, color)
             caret == IF st.last_glyph # <<>>
                      THEN st.caret + Trunc10(Kerning(st.last_glyph[1], key, d))
                      ELSE st.caret
             calls == IF st.last_glyph # <<>>
                      THEN Append(st.calls, Call("kerning", st.last_glyph[1], key, 0))
                      ELSE st.calls
             pixmap_glyph == FromBytes(buffer, glyph.width, glyph.height)
         IN  IF pixmap_glyph.some
             THEN PlaceGlyphsSkip(Tail(glyphs),
                         [pixmap |-> DrawPixmap(st.pixmap, glyph.left + caret,
                                                height - glyph.top + Round10(metrics.descent),
                                                pixmap_glyph),
                          caret |-> caret + glyph.advance,
                          last_glyph |-> <<key>>, calls |-> calls],
                         height, color, metrics, d)
             ELSE PlaceGlyphsSkip(Tail(glyphs), st, height, color, metrics, d)

\* The loop over the accepted glyphs: st is the loop state (pixmap, caret,
\* last_glyph as an empty or one-element sequence, and the backend calls).
RECURSIVE PlaceGlyphs(_, _, _, _, _, _)
PlaceGlyphs(glyphs, st, height, color, metrics, d) ==
    IF glyphs = <<>> THEN st
    ELSE LET key == Head(glyphs).key
             glyph == Head(glyphs).glyph
             buffer == ConvertBuffer(glyph, color)
             kerned == IF st.last_glyph # <<>>
                       THEN st.caret + Trunc10(Kerning(st.last_glyph[1], key, d))
                       ELSE st.caret
             calls == IF st.last_glyph # <<>>
                      THEN Append(st.calls, Call("kerning", st.last_glyph[1], key, 0))
                      ELSE st.calls
             pixmap_glyph == FromBytes(buffer, glyph.width, glyph.height)
             drawn == IF pixmap_glyph.some
                      THEN DrawPixmap(st.pixmap, glyph.left + kerned,
                                      height - glyph.top + Round10(metrics.descent),
                                      pixmap_glyph)
                      ELSE st.pixmap
         IN  PlaceGlyphs(Tail(glyphs),
                         [pixmap |-> drawn, caret |-> kerned + glyph.advance,
                          last_glyph |-> <<key>>, calls |-> calls],
                         height, color, metrics, d)

\* rerender(): the new cache and the backend calls it took to compute it.
Rerender(title, color, metrics, d) ==
    LET glyphs == Glyphs(title, d)
        width == FoldWidth(glyphs, 0)
        height == Round10(metrics.line_height)
        fresh == PixmapNew(width, height)
        lookups == <<Call("rerender", "", "", 0)>> \o GlyphCalls(title)
    IN  IF glyphs = <<>> THEN [pixmap |-> None, calls |-> lookups]
        ELSE IF ~fresh.some THEN [pixmap |-> None, calls |-> lookups]
        ELSE LET done == PlaceGlyphs(glyphs,
                                     [pixmap |-> fresh, caret |-> 0,
                                      last_glyph |-> <<>>, calls |-> lookups],
                                     height, color, metrics, d)
             IN  [pixmap |-> done.pixmap, calls |-> done.calls]

\* --------------------------------------------------------------- the state
VARIABLES
    phase,      \* "none": no renderer yet; "failed": new() returned Err; "ready"
    title,      \* self.title, a sequence of characters
    scale,      \* self.scale
    color,      \* self.color
    metrics,    \* self.metrics
    dpr,        \* the device-pixel ratio held by self.rasterizer
    pixmap,     \* self.pixmap
    font_desc,  \* self.font_desc
    font_key,   \* self.font_key
    size,       \* self.size
    call,       \* the last call of the public interface, with its arguments
    calls       \* the backend calls and render passes of that call, in order

font == <<font_desc, font_key, size>>

vars == <<phase, title, scale, color, metrics, dpr, pixmap, font, call, calls>>

fields == <<title, scale, color, metrics, dpr, pixmap, font>>

\* A call of the public interface: its name, its argument (the other two
\* argument fields keep a default) and the answers the backend gave to the
\* reference-glyph load and the metrics query, where the call issues them.
CallOf(op, t, s, c, fail) ==
    [op |-> op, title |-> t, scale |-> s, color |-> c, fail |-> fail]

NewFailures == {"none", "rasterizer", "load_font", "get_glyph", "metrics"}
MetricsFailures == {"none", "get_glyph", "metrics"}

Init ==
    /\ phase = "none"
    /\ title = <<>>
    /\ scale = 0
    /\ color = Rgba8(0, 0, 0, 0)
    /\ metrics = FontMetrics(0)
    /\ dpr = 0
    /\ pixmap = None
    /\ font_desc = NoFontDesc
    /\ font_key = 0
    /\ size = 0
    /\ call = CallOf("none", <<>>, 0, Rgba8(0, 0, 0, 0), "none")
    /\ calls = <<>>

\* The backend calls of new() up to and including the first one that fails.
NewCalls(fail) ==
    LET all == <<Call("rasterizer_new", "", "", InitialScale),
                 Call("load_font", "", "", 0),
                 Call("get_glyph", RefChar, "", 0),
                 Call("metrics", "", "", 0)>>
        upto == CASE fail = "rasterizer" -> 1
                  [] fail = "load_font" -> 2
                  [] fail = "get_glyph" -> 3
                  [] OTHER -> 4
    IN  SubSeq(all, 1, upto)

\* New with the result of the reference-glyph load discarded.
NewIgnoresGlyphError(c, fail) ==
    /\ phase \in {"none", "failed"}
    /\ call' = CallOf("new", <<>>, 0, c, fail)
    /\ IF fail \notin {"none", "get_glyph"}
       THEN /\ phase' = "failed"
            /\ calls' = WithKey(NewCalls(fail), LoadedFontKey, NominalSize)
            /\ UNCHANGED fields
       ELSE LET r == Rerender(<<>>, c, FontMetrics(InitialScale), InitialScale)
            IN  /\ phase' = "ready"
                /\ title' = <<>>
                /\ scale' = InitialScale
                /\ dpr' = InitialScale
                /\ metrics' = FontMetrics(InitialScale)
                /\ color' = c
                /\ font_desc' = FontDesc
                /\ font_key' = LoadedFontKey
                /\ size' = NominalSize
                /\ pixmap' = r.pixmap
                /\ calls' = WithKey(NewCalls("none") \o r.calls, LoadedFontKey, NominalSize)

\* TitleText::new(color): every `?` returns the backend's error to the caller.
New(c, fail) ==
    /\ phase \in {"none", "failed"}
    /\ call' = CallOf("new", <<>>, 0, c, fail)
    /\ IF fail # "none"
       THEN /\ phase' = "failed"
            /\ calls' = WithKey(NewCalls(fail), LoadedFontKey, NominalSize)
            /\ UNCHANGED fields
       ELSE LET r == Rerender(<<>>, c, FontMetrics(InitialScale), InitialScale)
            IN  /\ phase' = "ready"
                /\ title' = <<>>
                /\ scale' = InitialScale
                /\ dpr' = InitialScale
                /\ metrics' = FontMetrics(InitialScale)
                /\ color' = c
                /\ font_desc' = FontDesc
                /\ font_key' = LoadedFontKey
                /\ size' = NominalSize
                /\ pixmap' = r.pixmap
                /\ calls' = WithKey(NewCalls(fail) \o r.calls, LoadedFontKey, NominalSize)

\* UpdateMetrics storing default metrics when the refresh fails.
UpdateMetricsClobbers(old, d, fail) ==
    IF fail = "get_glyph"
    THEN [metrics |-> FontMetrics(0), calls |-> <<Call("get_glyph", RefChar, "", 0)>>]
    ELSE IF fail = "metrics"
    THEN [metrics |-> FontMetrics(0),
          calls |-> <<Call("get_glyph", RefChar, "", 0), Call("metrics", "", "", 0)>>]
    ELSE [metrics |-> FontMetrics(d),
          calls |-> <<Call("get_glyph", RefChar, "", 0), Call("metrics", "", "", 0)>>]

\* update_metrics(): the metrics to store, and the backend calls made.
UpdateMetrics(old, d, fail) ==
    IF fail = "get_glyph"
    THEN [metrics |-> old, calls |-> <<Call("get_glyph", RefChar, "", 0)>>]
    ELSE IF fail = "metrics"
    THEN [metrics |-> old,
          calls |-> <<Call("get_glyph", RefChar, "", 0), Call("metrics", "", "", 0)>>]
    ELSE [metrics |-> FontMetrics(d),
          calls |-> <<Call("get_glyph", RefChar, "", 0), Call("metrics", "", "", 0)>>]

\* UpdateScale with the render pass run before the metrics are refreshed.
UpdateScaleRenderFirst(s, fail) ==
    /\ phase = "ready"
    /\ call' = CallOf("update_scale", <<>>, s, color, IF scale # s THEN fail ELSE "none")
    /\ IF scale # s
       THEN LET r == Rerender(title, color, metrics, s)
                m == UpdateMetrics(metrics, s, fail)
            IN  /\ dpr' = s
                /\ scale' = s
                /\ metrics' = m.metrics
                /\ pixmap' = r.pixmap
                /\ calls' = WithKey(<<Call("update_dpr", "", "", s)>> \o r.calls \o m.calls,
                                    font_key, size)
                /\ UNCHANGED <<phase, font, title, color>>
       ELSE /\ calls' = <<>>
            /\ UNCHANGED <<phase, fields>>

\* UpdateScale with the font size scaled by the new ratio.
UpdateScaleResizesFont(s, fail) ==
    /\ phase = "ready"
    /\ call' = CallOf("update_scale", <<>>, s, color, IF scale # s THEN fail ELSE "none")
    /\ IF scale # s
       THEN LET m == UpdateMetrics(metrics, s, fail)
                r == Rerender(title, color, m.metrics, s)
            IN  /\ dpr' = s
                /\ scale' = s
                /\ size' = NominalSize * s
                /\ metrics' = m.metrics
                /\ pixmap' = r.pixmap
                /\ calls' = WithKey(<<Call("update_dpr", "", "", s)>> \o m.calls \o r.calls,
                                    font_key, NominalSize * s)
                /\ UNCHANGED <<phase, font_desc, font_key, title, color>>
       ELSE /\ calls' = <<>>
            /\ UNCHANGED <<phase, fields>>

\* update_scale(scale)
UpdateScale(s, fail) ==
    /\ phase = "ready"
    /\ call' = CallOf("update_scale", <<>>, s, color, IF scale # s THEN fail ELSE "none")
    /\ IF scale # s
       THEN LET m == UpdateMetrics(metrics, s, fail)
                r == Rerender(title, color, m.metrics, s)
            IN  /\ dpr' = s
                /\ scale' = s
                /\ metrics' = m.metrics
                /\ pixmap' = r.pixmap
                /\ calls' = WithKey(<<Call("update_dpr", "", "", s)>> \o m.calls \o r.calls,
                                    font_key, size)
                /\ UNCHANGED <<phase, font, title, color>>
       ELSE /\ calls' = <<>>
            /\ UNCHANGED <<phase, fields>>

\* UpdateTitle without the equality test.
UpdateTitleAlways(t) ==
    /\ phase = "ready"
    /\ call' = CallOf("update_title", t, 0, color, "none")
    /\ LET r == Rerender(t, color, metrics, dpr)
       IN  /\ title' = t
           /\ pixmap' = r.pixmap
           /\ calls' = WithKey(r.calls, font_key, size)
           /\ UNCHANGED <<phase, font, scale, color, metrics, dpr>>

\* UpdateTitle with the render pass skipped for an empty title.
UpdateTitleKeepsCache(t) ==
    /\ phase = "ready"
    /\ call' = CallOf("update_title", t, 0, color, "none")
    /\ IF title # t
       THEN LET r == Rerender(t, color, metrics, dpr)
            IN  /\ title' = t
                /\ pixmap' = IF t = <<>> THEN pixmap ELSE r.pixmap
                /\ calls' = WithKey(r.calls, font_key, size)
                /\ UNCHANGED <<phase, font, scale, color, metrics, dpr>>
       ELSE /\ calls' = <<>>
            /\ UNCHANGED <<phase, fields>>

\* update_title(title)
UpdateTitle(t) ==
    /\ phase = "ready"
    /\ call' = CallOf("update_title", t, 0, color, "none")
    /\ IF title # t
       THEN LET r == Rerender(t, color, metrics, dpr)
            IN  /\ title' = t
                /\ pixmap' = r.pixmap
                /\ calls' = WithKey(r.calls, font_key, size)
                /\ UNCHANGED <<phase, font, scale, color, metrics, dpr>>
       ELSE /\ calls' = <<>>
            /\ UNCHANGED <<phase, fields>>

\* UpdateColor without the render pass.
UpdateColorStale(c) ==
    /\ phase = "ready"
    /\ call' = CallOf("update_color", <<>>, 0, c, "none")
    /\ IF color # c
       THEN /\ color' = c
            /\ calls' = <<>>
            /\ UNCHANGED <<phase, font, title, scale, metrics, dpr, pixmap>>
       ELSE /\ calls' = <<>>
            /\ UNCHANGED <<phase, fields>>

\* update_color(color)
UpdateColor(c) ==
    /\ phase = "ready"
    /\ call' = CallOf("update_color", <<>>, 0, c, "none")
    /\ IF color # c
       THEN LET r == Rerender(title, c, metrics, dpr)
            IN  /\ color' = c
                /\ pixmap' = r.pixmap
                /\ calls' = WithKey(r.calls, font_key, size)
                /\ UNCHANGED <<phase, font, title, scale, metrics, dpr>>
       ELSE /\ calls' = <<>>
            /\ UNCHANGED <<phase, fields>>

\* pixmap(): a read of the cache.
Pixmap ==
    /\ phase = "ready"
    /\ call' = CallOf("pixmap", <<>>, 0, color, "none")
    /\ calls' = <<>>
    /\ UNCHANGED <<phase, fields>>

Next ==
    \/ \E c \in Colors, fail \in NewFailures : New(c, fail)
    \/ \E s \in Scales, fail \in MetricsFailures : UpdateScale(s, fail)
    \/ \E t \in Titles : UpdateTitle(t)
    \/ \E c \in Colors : UpdateColor(c)
    \/ Pixmap

Spec == Init /\ [][Next]_vars

\* A renderer right after update_title(t) has set a title t of MaxLongTitle
\* characters, at any color, any scale, and the metrics of any scale (those
\* of another scale are stored when the refresh of update_scale failed).
InitLongTitle ==
    \E t \in LongTitles, c \in Colors, s \in Scales, m \in Scales :
        /\ phase = "ready"
        /\ title = t
        /\ scale = s
        /\ color = c
        /\ metrics = FontMetrics(m)
        /\ dpr = s
        /\ pixmap = Rerender(t, c, FontMetrics(m), s).pixmap
        /\ font_desc = FontDesc
        /\ font_key = LoadedFontKey
        /\ size = NominalSize
        /\ call = CallOf("update_title", t, 0, c, "none")
        /\ calls = WithKey(Rerender(t, c, FontMetrics(m), s).calls, LoadedFontKey, NominalSize)

\* The same operations, started before new() or from a renderer whose title
\* is longer than the titles update_title is given here.
LongTitleSpec == (Init \/ InitLongTitle) /\ [][Next]_vars

\* ================================================================== claims
Ready == phase = "ready"

\* Whether every character of t fails its glyph lookup at ratio d.
AllLookupsFail(t, d) == \A i \in 1..Len(t) : ~GetGlyph(t[i], d).ok

\* Whether some character of t has a glyph at ratio d.
SomeLookupSucceeds(t, d) == \E i \in 1..Len(t) : GetGlyph(t[i], d).ok

\* The number of entries of a call log that are the backend call op.
Count(log, op) == Cardinality({i \in 1..Len(log) : log[i].op = op})

\* C1: the cached bitmap is always exactly what the render pass produces
\* from the current title, color and metrics (and the rasterizer's current
\* ratio): never a bitmap of an earlier title, scale or color.
CacheReflectsState ==
    Ready => pixmap = Rerender(title, color, metrics, dpr).pixmap

\* C1 witness: a bitmap is cached right after a color change at scale 2.
CacheReflectsStateWitness ==
    /\ Ready /\ call.op = "update_color" /\ calls # <<>>
    /\ scale = 2 /\ pixmap.some /\ Len(pixmap.layers) = 2

\* C2: a mutator called with the value already stored changes no field
\* and issues no backend call and no render pass.
NoOpOnEqualValue ==
    [][/\ (call'.op = "update_title" /\ call'.title = title)
            => (UNCHANGED <<phase, fields>> /\ calls' = <<>>)
       /\ (call'.op = "update_scale" /\ call'.scale = scale)
            => (UNCHANGED <<phase, fields>> /\ calls' = <<>>)
       /\ (call'.op = "update_color" /\ call'.color = color)
            => (UNCHANGED <<phase, fields>> /\ calls' = <<>>)]_vars

\* C2 witness: update_title was called with the stored, rendered title.
NoOpOnEqualValueWitness ==
    /\ Ready /\ call.op = "update_title" /\ call.title = title
    /\ calls = <<>> /\ pixmap.some

\* C3: with an empty title there is no bitmap.
EmptyTitleNoPixmap == (Ready /\ title = <<>>) => ~pixmap.some

\* C3 witness: the title was just changed to the empty one, at scale 2 and
\* with metrics that give a bitmap to any title with a glyph.
EmptyTitleNoPixmapWitness ==
    /\ Ready /\ call.op = "update_title" /\ calls # <<>> /\ title = <<>>
    /\ scale = 2 /\ metrics = FontMetrics(2) /\ color = Green /\ ~pixmap.some

\* C4: the stored scale factor is at least 1 in every state of a renderer.
ScaleAtLeastOne == Ready => scale >= 1

\* The sum over the characters 1..i of t that have a glyph at ratio d of
\* max(left + width, 5).
RECURSIVE SumOfSlots(_, _, _)
SumOfSlots(t, d, i) ==
    IF i = 0 THEN 0
    ELSE LET g == GetGlyph(t[i], d)
         IN  SumOfSlots(t, d, i - 1)
               + (IF ~g.ok THEN 0 ELSE IF g.left + g.width > 5 THEN g.left + g.width ELSE 5)

\* C5: the width of a cached bitmap is the sum over the accepted glyphs of
\* max(left + width, 5); for a single character narrower than 5 it is 5.
WidthIsSumOfSlots ==
    (Ready /\ pixmap.some) =>
        /\ pixmap.width = SumOfSlots(title, dpr, Len(title))
        /\ (Len(title) = 1 /\ GetGlyph(title[1], dpr).left + GetGlyph(title[1], dpr).width < 5)
              => pixmap.width = 5

\* C5 witness: a narrow and a wide glyph at ratio 2: 5 + (8 + 2).
WidthIsSumOfSlotsWitness ==
    /\ Ready /\ pixmap.some /\ title = <<"A", "B">> /\ dpr = 2 /\ pixmap.width = 15

\* C6: the height of a cached bitmap is the rounded line height of the
\* stored metrics.
HeightIsRoundedLineHeight ==
    (Ready /\ pixmap.some) =>
        /\ 10 * pixmap.height - 5 <= metrics.line_height
        /\ metrics.line_height < 10 * pixmap.height + 5

\* C6 witness: line height 1.5 (stored since scale 1) gives 2 rows at scale 2.
HeightIsRoundedLineHeightWitness ==
    /\ Ready /\ pixmap.some /\ scale = 2 /\ metrics.line_height = 15
    /\ pixmap.height = 2 /\ Len(title) = 2

\* C7: update_title with a non-empty title whose lookups all fail returns
\* with the title stored and no bitmap, whatever was cached before.
AllMissingGivesNone ==
    [][(call'.op = "update_title" /\ call'.title # <<>>
          /\ AllLookupsFail(call'.title, dpr))
        => (phase' = "ready" /\ title' = call'.title /\ ~pixmap'.some)]_vars

\* C7 witness: the title was just changed to one of two missing glyphs.
AllMissingGivesNoneWitness ==
    /\ Ready /\ call.op = "update_title" /\ calls # <<>>
    /\ title = <<"?", "?">> /\ ~pixmap.some

\* C8: update_scale with a changed scale and a failed metrics refresh keeps
\* the stored metrics, stores the scale, and still runs the render pass
\* (after the refresh attempt), with the old metrics and the new ratio.
FailedRefreshKeepsMetrics ==
    [][(call'.op = "update_scale" /\ call'.scale # scale /\ call'.fail # "none")
        => /\ phase' = "ready"
           /\ metrics' = metrics
           /\ scale' = call'.scale
           /\ Count(calls', "rerender") = 1
           /\ calls'[1].op = "update_dpr" /\ calls'[1].n = call'.scale
           /\ pixmap' = Rerender(title, color, metrics, call'.scale).pixmap]_vars

\* C8 witness: at scale 2 the metrics query failed and a bitmap was rendered
\* with the metrics of scale 1.
FailedRefreshKeepsMetricsWitness ==
    /\ Ready /\ call.op = "update_scale" /\ call.fail = "metrics"
    /\ scale = 2 /\ metrics = FontMetrics(1) /\ pixmap.some

\* Whether two bitmaps of one size differ in a colour channel of a pixel
\* that has a non-zero alpha in one of them.
ColorAltered(p, q) ==
    \E i \in 1..(p.width * p.height) :
        LET a == Pixels(p)[i]
            b == Pixels(q)[i]
        IN  /\ a[4] # 0 \/ b[4] # 0
            /\ <<a[1], a[2], a[3]>> # <<b[1], b[2], b[3]>>

\* Whether every pixel of two bitmaps of one size has the same alpha.
SameAlpha(p, q) ==
    \A i \in 1..(p.width * p.height) : Pixels(p)[i][4] = Pixels(q)[i][4]

\* C9 as stated: for a title with an accepted glyph, a change of color
\* keeps the size of the bitmap and alters a colour channel of some pixel
\* with non-zero alpha.
ColorChangeAltersPixels ==
    [][(call'.op = "update_color" /\ call'.color # color
          /\ SomeLookupSucceeds(title, dpr) /\ pixmap.some)
        => /\ pixmap'.some
           /\ pixmap'.width = pixmap.width /\ pixmap'.height = pixmap.height
           /\ ColorAltered(pixmap, pixmap')]_vars

\* C9 amended: a change of color keeps the presence, width and height of
\* the bitmap and the alpha of every pixel; the bitmap stays byte-identical
\* when no pixel has a non-zero alpha or when the two colors have the same
\* red and green.
ColorChangeKeepsSize ==
    [][(call'.op = "update_color" /\ call'.color # color
          /\ SomeLookupSucceeds(title, dpr))
        => /\ pixmap'.some = pixmap.some
           /\ pixmap'.width = pixmap.width /\ pixmap'.height = pixmap.height
           /\ SameAlpha(pixmap, pixmap')
           /\ ((call'.color.r = color.r /\ call'.color.g = color.g)
                 => Pixels(pixmap') = Pixels(pixmap))
           /\ ((\A i \in 1..(pixmap.width * pixmap.height) : Pixels(pixmap)[i][4] = 0)
                 => Pixels(pixmap') = Pixels(pixmap))]_vars

\* C9 witness: the color was just changed under a two-glyph bitmap that has
\* a pixel with non-zero alpha.
ColorChangeKeepsSizeWitness ==
    /\ Ready /\ call.op = "update_color" /\ calls # <<>> /\ pixmap.some
    /\ Len(Glyphs(title, dpr)) = 2
    /\ \E i \in 1..(pixmap.width * pixmap.height) : Pixels(pixmap)[i][4] # 0

\* C10: new() fails, leaving no renderer, when any of its four backend
\* calls fails; it makes each of them at most once; on success the
\* renderer has an empty title, scale 1, the given color and no bitmap.
NewFailsOrInitialises ==
    [][(call'.op = "new")
        => /\ (call'.fail # "none") => (phase' = "failed" /\ UNCHANGED fields)
           /\ (call'.fail = "none")
                => /\ phase' = "ready" /\ title' = <<>> /\ scale' = 1
                   /\ color' = call'.color /\ ~pixmap'.some
           /\ \A op \in {"rasterizer_new", "load_font", "get_glyph", "metrics"} :
                Count(calls', op) <= 1]_vars

\* C10 witness: new() has just failed at its last backend call.
NewFailsOrInitialisesWitness ==
    /\ phase = "failed" /\ call.op = "new" /\ call.fail = "metrics" /\ Len(calls) = 4

Mutators == {"update_title", "update_scale", "update_color"}

\* C11: when the bitmap of a render pass cannot be allocated (the title has
\* a glyph but the stored line height rounds to no row at all), the mutator
\* that ran the pass returns with no bitmap cached, whatever was cached.
AllocationFailureGivesNone ==
    [][(call'.op \in Mutators /\ Count(calls', "rerender") = 1
          /\ SomeLookupSucceeds(title', dpr') /\ metrics'.line_height < 5)
        => (phase' = "ready" /\ ~pixmap'.some)]_vars

\* C11 witness: update_title has just set a title with two glyphs while the
\* stored line height is 0, at a scale whose own line height is not.
AllocationFailureGivesNoneWitness ==
    /\ Ready /\ call.op = "update_title" /\ calls # <<>> /\ title = <<"B", "A">>
    /\ scale = 2 /\ metrics.line_height = 0 /\ ~pixmap.some

\* C12: the font descriptor, the font handle and the nominal size are the
\* ones new() set and no later call changes them; every glyph lookup (and
\* every other keyed backend call) is given that handle and that size.
FontFixedAfterNew ==
    [][/\ (call'.op = "new" /\ call'.fail = "none")
            => (font_desc'.family = "sans-serif" /\ font_key' = LoadedFontKey /\ size' = 10)
       /\ (call'.op \in Mutators \cup {"pixmap"})
            => /\ UNCHANGED <<font_desc, font_key, size>>
               /\ \A i \in 1..Len(calls') :
                     calls'[i].op \in {"get_glyph", "kerning", "metrics"}
                        => (calls'[i].font_key = font_key /\ calls'[i].size = size)]_vars

\* C12 witness: a scale change has just re-rendered a two-glyph title, with
\* lookups, a kerning query and a metrics query, under the font of new().
FontFixedAfterNewWitness ==
    /\ Ready /\ call.op = "update_scale" /\ scale = 2 /\ Len(title) = 2
    /\ Count(calls, "get_glyph") = 3 /\ Count(calls, "kerning") = 1
    /\ Count(calls, "metrics") = 1
    /\ font_key = LoadedFontKey /\ size = 10 /\ font_desc = FontDesc

\* The positions in t of the characters whose glyph lookup succeeds, in order.
Accepted(t, d) == SelectSeq([i \in 1..Len(t) |-> i], LAMBDA i : GetGlyph(t[i], d).ok)

\* The k-th accepted glyph of t.
AcceptedGlyph(t, d, k) == GetGlyph(t[Accepted(t, d)[k]], d)

\* The backend's horizontal kerning, in tenths, of accepted glyphs k and k+1.
PairKerning(t, d, k) == Kerning(t[Accepted(t, d)[k]], t[Accepted(t, d)[k + 1]], d)

RECURSIVE SumSeq(_)
SumSeq(q) == IF q = <<>> THEN 0 ELSE Head(q) + SumSeq(Tail(q))

\* Ten times the sum of the advances of accepted glyphs 1..k-1 plus the
\* kerning values, as the backend returns them, of the pairs before glyph k.
CaretExact10(t, d, k) ==
    SumSeq([j \in 1..(k - 1) |-> 10 * AcceptedGlyph(t, d, j).advance + PairKerning(t, d, j)])

\* The same sum with each kerning value cut to a whole number of pixels.
CaretTruncated(t, d, k) ==
    SumSeq([j \in 1..(k - 1) |-> AcceptedGlyph(t, d, j).advance + Trunc10(PairKerning(t, d, j))])

\* A source view exists for a glyph with a non-empty box.
HasView(g) == g.width > 0 /\ g.height > 0

\* The accepted glyphs of t, by rank, for which a source view exists.
Viewed(t, d) ==
    SelectSeq([k \in 1..Len(Accepted(t, d)) |-> k], LAMBDA k : HasView(AcceptedGlyph(t, d, k)))

\* The pairs of the kerning queries in a log of backend calls, in order.
KerningPairs(log) ==
    LET q == SelectSeq(log, LAMBDA e : e.op = "kerning")
    IN  [i \in 1..Len(q) |-> <<q[i].a, q[i].b>>]

\* The consecutive pairs of accepted glyphs of t.
AcceptedPairs(t, d) ==
    [k \in 1..(Len(Accepted(t, d)) - 1) |->
        <<t[Accepted(t, d)[k]], t[Accepted(t, d)[k + 1]]>>]

\* C13 as stated: every blitted glyph is at x = left + caret and
\* y = bitmap height - top + round(descent), where the caret is exactly the
\* sum of the advances of the accepted glyphs before it plus the kerning
\* values of the consecutive accepted pairs before it; the kerning queries
\* of a render pass are those pairs in order, none for the first glyph.
GlyphsPlacedAtExactCaret ==
    (Ready /\ pixmap.some) =>
        /\ Len(pixmap.layers) = Len(Viewed(title, dpr))
        /\ \A j \in 1..Len(Viewed(title, dpr)) :
              LET k == Viewed(title, dpr)[j]
                  g == AcceptedGlyph(title, dpr, k)
              IN  /\ 10 * pixmap.layers[j].x = 10 * g.left + CaretExact10(title, dpr, k)
                  /\ pixmap.layers[j].y = pixmap.height - g.top + Round10(metrics.descent)
        /\ Count(calls, "rerender") = 1
              => KerningPairs(calls) = AcceptedPairs(title, dpr)

\* C13 amended: the same, with each kerning value truncated toward zero to a
\* whole number of pixels before it is added to the caret.
GlyphsPlacedAtTruncatedCaret ==
    (Ready /\ pixmap.some) =>
        /\ Len(pixmap.layers) = Len(Viewed(title, dpr))
        /\ \A j \in 1..Len(Viewed(title, dpr)) :
              LET k == Viewed(title, dpr)[j]
                  g == AcceptedGlyph(title, dpr, k)
              IN  /\ pixmap.layers[j].x = g.left + CaretTruncated(title, dpr, k)
                  /\ pixmap.layers[j].y = pixmap.height - g.top + Round10(metrics.descent)
        /\ Count(calls, "rerender") = 1
              => KerningPairs(calls) = AcceptedPairs(title, dpr)

\* C13 witness: update_scale has just re-rendered two glyphs that both have a
\* source view; the second is placed after a kerning value of 3.4 pixels.
GlyphsPlacedAtTruncatedCaretWitness ==
    /\ Ready /\ pixmap.some /\ call.op = "update_scale" /\ title = <<"B", "A">>
    /\ dpr = 2 /\ metrics = FontMetrics(2)
    /\ Len(pixmap.layers) = 2
    /\ Count(calls, "rerender") = 1 /\ KerningPairs(calls) = <<<<"B", "A">>>>
    /\ pixmap.layers[1].x = 8 /\ pixmap.layers[2].x = 14 + 3
    /\ pixmap.layers[2].y = 3 - 2 - 1

\* The operations of a log of backend calls, in order.
Ops(log) == [i \in 1..Len(log) |-> log[i].op]

\* The position of the first entry of a log with operation op, 0 if none.
First(log, op) ==
    IF \E i \in 1..Len(log) : log[i].op = op
    THEN CHOOSE i \in 1..Len(log) : log[i].op = op /\ \A j \in 1..(i - 1) : log[j].op # op
    ELSE 0

\* C14: in an update_scale call that changes the scale the rasterizer is
\* told the new device-pixel ratio first, then the reference glyph is loaded
\* and (if that succeeded) the metrics are queried, and only then does the
\* render pass start: its glyph lookups, its kerning lookups and its height
\* come after both, at the new ratio and from the metrics the refresh left.
ScaleChangeOrdersBackendCalls ==
    [][(call'.op = "update_scale" /\ scale' # scale) =>
          LET r == First(calls', "rerender")
          IN  /\ calls'[1].op = "update_dpr" /\ calls'[1].n = scale'
              /\ Count(calls', "update_dpr") = 1 /\ Count(calls', "rerender") = 1
              /\ calls'[2].op = "get_glyph" /\ calls'[2].a = RefChar
              /\ r = (IF call'.fail = "get_glyph" THEN 3 ELSE 4)
              /\ call'.fail # "get_glyph" => calls'[3].op = "metrics"
              /\ \A i \in (r + 1)..Len(calls') : calls'[i].op \in {"get_glyph", "kerning"}
              /\ Count(calls', "get_glyph") = 1 + Len(title')
              /\ dpr' = scale'
              /\ pixmap' = Rerender(title', color', metrics', scale').pixmap
              /\ pixmap'.some => pixmap'.height = Round10(metrics'.line_height)]_vars

\* C14 witness: a scale change whose refresh succeeded has re-rendered two
\* accepted glyphs; the log holds the seven backend calls in that order.
ScaleChangeOrdersBackendCallsWitness ==
    /\ Ready /\ call.op = "update_scale" /\ call.fail = "none" /\ scale = 2
    /\ title = <<"A", "B">> /\ pixmap.some /\ pixmap.height = 3
    /\ Ops(calls) = <<"update_dpr", "get_glyph", "metrics", "rerender",
                      "get_glyph", "get_glyph", "kerning">>

\* The title t without the characters whose glyph lookup fails.
Strip(t, d) == SelectSeq(t, LAMBDA c : GetGlyph(c, d).ok)

\* C15: a character whose glyph lookup fails contributes nothing: the cached
\* bitmap (size, glyph positions, glyph bytes, pixels) is the one the render
\* pass gives for the title without those characters, and the kerning
\* queries of a render pass are those of the title without them.
FailedLookupsContributeNothing ==
    Ready =>
        LET r == Rerender(Strip(title, dpr), color, metrics, dpr)
        IN  /\ pixmap = r.pixmap
            /\ Pixels(pixmap) = Pixels(r.pixmap)
            /\ Count(calls, "rerender") = 1 => KerningPairs(calls) = KerningPairs(r.calls)

\* C15 witness: update_color has just re-rendered a title whose middle
\* character has no glyph; kerning was asked for the glyphs on either side.
FailedLookupsContributeNothingWitness ==
    /\ Ready /\ call.op = "update_color" /\ title = <<"A", "?", "B">> /\ dpr = 2
    /\ pixmap.some /\ Len(pixmap.layers) = 2
    /\ KerningPairs(calls) = <<<<"A", "B">>>>
    /\ pixmap.layers[2].x = 8 + 12 - 2

\* n / m rounded to the nearest whole number, for n >= 0 and m > 0.
RoundDiv(n, m) == (2 * n + m) \div (2 * m)

\* The four bytes expected for source pixel i of glyph g under base color c:
\* coverage from the 4th byte of an RGBA pixel or from the mean of the three
\* bytes of an RGB pixel, then red, red, green and the coverage itself, the
\* colour channels scaled by the coverage.
ExpectedBytes(g, i, c) ==
    IF g.format = "Rgba"
    THEN LET cov == g.buffer[4 * i]
         IN  <<RoundDiv(c.r * cov, 255), RoundDiv(c.r * cov, 255),
               RoundDiv(c.g * cov, 255), cov>>
    ELSE LET sum == g.buffer[3 * i - 2] + g.buffer[3 * i - 1] + g.buffer[3 * i]
         IN  <<RoundDiv(c.r * sum, 765), RoundDiv(c.r * sum, 765),
               RoundDiv(c.g * sum, 765), RoundDiv(sum, 3)>>

\* C16: every source pixel of every blitted glyph becomes exactly four bytes,
\* (premultiplied red, premultiplied red, premultiplied green, coverage),
\* with the coverage taken from the 4th channel of an RGBA pixel and from the
\* unweighted mean of R, G, B of an RGB pixel; the base color's blue and its
\* own alpha have no effect on the bitmap.
PixelsAreRedRedGreenCoverage ==
    (Ready /\ pixmap.some) =>
        /\ \A j \in 1..Len(pixmap.layers) :
              LET g == AcceptedGlyph(title, dpr, Viewed(title, dpr)[j])
                  data == pixmap.layers[j].src.data
              IN  /\ Len(data) = g.width * g.height
                  /\ \A i \in 1..Len(data) :
                        Len(data[i]) = 4 /\ data[i] = ExpectedBytes(g, i, color)
        /\ \A blue \in {0, 255}, alpha \in {0, 128, 255} :
              Rerender(title, Rgba8(color.r, color.g, blue, alpha), metrics, dpr).pixmap = pixmap

\* C16 witness: update_color has just rendered, in a color with blue in it,
\* an RGBA glyph at full coverage and an RGB glyph whose second pixel has a
\* mean of 85.
PixelsAreRedRedGreenCoverageWitness ==
    /\ Ready /\ call.op = "update_color" /\ color = Magenta /\ dpr = 2
    /\ title = <<"A", "B">> /\ pixmap.some /\ Len(pixmap.layers) = 2
    /\ pixmap.layers[1].src.data = <<<<255, 255, 0, 255>>>>
    /\ pixmap.layers[2].src.data = <<<<255, 255, 0, 255>>, <<85, 85, 0, 85>>>>

\* C17: whenever pixmap() is Some, the title is not empty, at least one of
\* its characters has a glyph at the rasterizer's ratio, and the bitmap is
\* at least 5 pixels wide for each accepted glyph.
SomePixmapHasAcceptedGlyphs ==
    (Ready /\ pixmap.some) =>
        /\ title # <<>>
        /\ SomeLookupSucceeds(title, dpr)
        /\ Len(Accepted(title, dpr)) >= 1
        /\ pixmap.width >= 5 * Len(Accepted(title, dpr))
        /\ Count(calls, "rerender") = 1
              => \E i \in 1..Len(calls) :
                    calls[i].op = "get_glyph" /\ calls[i].a # RefChar /\ GetGlyph(calls[i].a, dpr).ok

\* C17 witness: the title's only accepted glyph is narrower than the minimal
\* slot, and the bitmap is exactly 5 pixels wide.
SomePixmapHasAcceptedGlyphsWitness ==
    /\ Ready /\ pixmap.some /\ call.op = "update_title" /\ title = <<"?", "A">>
    /\ dpr = 2 /\ Len(Accepted(title, dpr)) = 1 /\ pixmap.width = 5
    /\ Len(pixmap.layers) = 1

\* The accepted glyphs of t, by rank, for which no source view exists.
Viewless(t, d) ==
    {k \in 1..Len(Accepted(t, d)) : ~HasView(AcceptedGlyph(t, d, k))}

\* C18: an accepted glyph without a source view draws nothing, and yet it
\* reserves max(left + width, 5) of the bitmap's width, kerning is asked
\* between it and the glyph before it and between it and the glyph after it,
\* and every glyph blitted after it is placed past its kerning and advance.
ViewlessGlyphStillCounts ==
    (Ready /\ pixmap.some /\ Viewless(title, dpr) # {}) =>
        LET n == Len(Accepted(title, dpr))
        IN  /\ Len(pixmap.layers) = n - Cardinality(Viewless(title, dpr))
            /\ pixmap.width =
                  SumSeq([k \in 1..n |->
                             Max(AcceptedGlyph(title, dpr, k).left
                                    + AcceptedGlyph(title, dpr, k).width, 5)])
            /\ \A k \in Viewless(title, dpr) :
                  /\ Count(calls, "rerender") = 1 =>
                        /\ Len(KerningPairs(calls)) = n - 1
                        /\ k > 1 => KerningPairs(calls)[k - 1]
                                       = <<title[Accepted(title, dpr)[k - 1]],
                                           title[Accepted(title, dpr)[k]]>>
                        /\ k < n => KerningPairs(calls)[k]
                                       = <<title[Accepted(title, dpr)[k]],
                                           title[Accepted(title, dpr)[k + 1]]>>
                  /\ \A j \in 1..Len(pixmap.layers) :
                        Viewed(title, dpr)[j] > k =>
                           pixmap.layers[j].x
                              = AcceptedGlyph(title, dpr, Viewed(title, dpr)[j]).left
                                + CaretTruncated(title, dpr, Viewed(title, dpr)[j])

\* C18 witness: update_color has just re-rendered three accepted glyphs, the
\* middle one without pixels: two blits, two kerning queries, the bitmap
\* 6 + 5 + 6 wide, and the last glyph at 4 + (7 + 1 + 6 - 1).
ViewlessGlyphStillCountsWitness ==
    /\ Ready /\ pixmap.some /\ call.op = "update_color" /\ title = <<"B", "A", "B">>
    /\ dpr = 1 /\ Viewless(title, dpr) = {2}
    /\ Len(pixmap.layers) = 2 /\ pixmap.width = 17
    /\ KerningPairs(calls) = <<<<"B", "A">>, <<"A", "B">>>>
    /\ pixmap.layers[2].x = 17

====
